---- MODULE Spec2Model ----
(***************************************************************************)
(* The star backend: a point set loaded once at startup, a k-d tree over   *)
(* it, the reachability graph for a fuel threshold (build_graph), the      *)
(* bounded nearest-neighbour query (get_neighbors), the FastAPI handlers   *)
(* that call them, and the path search (Dijkstra, A* ) on the graph.       *)
(*                                                                         *)
(* Coordinates are integers.  Every pair of points of RectPoints is an     *)
(* integer distance apart (3 to 6), so distances, edge weights and path    *)
(* costs are exact there; FarPoint stays farther than MaxFuel + 1 from all *)
(* others, so its (rounded-down) distances never weigh an edge.            *)
(***************************************************************************)
EXTENDS Integers, Sequences, FiniteSets, TLC

VARIABLES STAR_NODES, KDTREE, STAR_DATA, resp

vars == <<STAR_NODES, KDTREE, STAR_DATA, resp>>

---------------------------------------------------------------------------
(* Bounds of the model *)

\* longest point set enumerated point by point
MaxStars == 2
\* largest fuel / radius a request carries
MaxFuel == 5
\* size of the one crowded point set (more points than the k = 100 cap)
DenseCount == 101

(* Program constants *)

\* k of kdtree.query in get_neighbors
K == 100
\* id of the first CSV row in the documented file format
FirstId == 1

---------------------------------------------------------------------------
(* Values *)

\* Python's None, and a value that is not None
None == [isNone |-> TRUE]
Some(v) == [isNone |-> FALSE, value |-> v]

\* points whose pairwise distances are the integers 3, 4, 5 and 6
RectPoints == {<<0, 0, 0>>, <<3, 0, 0>>, <<3, 4, 0>>, <<6, 0, 0>>}
FarPoint == <<10, 10, 10>>
Universe == RectPoints \cup {FarPoint}

\* the documented scenario: (0,0,0), (3,0,0), (3,4,0), (10,10,10)
Scenario == <<<<0, 0, 0>>, <<3, 0, 0>>, <<3, 4, 0>>, <<10, 10, 10>>>>

\* two routes from (0,0,0) to (6,0,0) once fuel is 5: over (3,4,0), cost 10,
\* and over (3,0,0), cost 6
Detour == <<<<0, 0, 0>>, <<3, 4, 0>>, <<3, 0, 0>>, <<6, 0, 0>>>>

\* DenseCount points: (0,0,0), (3,0,0), and a cluster at (0,4,0), which is
\* 4 away from the first point and 5 away from the second
Dense ==
    [i \in 1..DenseCount |->
        IF i = 1 THEN <<0, 0, 0>> ELSE IF i = 2 THEN <<3, 0, 0>> ELSE <<0, 4, 0>>]

SmallFiles == UNION {[1..n -> Universe] : n \in 0..MaxStars}

\* the contents a stars.csv can have: the positions of its rows, in order
Files == SmallFiles \cup {Scenario, Detour, Dense}

\* float('inf') / np.inf: above every finite distance and path cost of the model
Infinity == (DenseCount + MaxStars + 2) * 30 + 1

Fuels == (0 - 1)..MaxFuel

\* indices a request can carry for a point set of n points: below, inside
\* and above the valid range (for the crowded point set only the first two
\* of the valid ones)
IndexInputs(n) == IF n <= MaxStars + 2 THEN (0 - 1)..n ELSE {0 - 1, 0, 1, n}

\* what the library does with a radius below zero (outside its documented
\* domain "nonnegative float"): the radius is squared before it is compared
\* ("square"), or nothing is within it ("nothing")
NegRadiusOutcomes == {"square", "nothing"}

\* the order of equidistant points in a nearest-neighbour result is not
\* specified by the library
TieOrders == {"asc", "desc"}

\* the outcomes to consider for a radius r: one when r is in the documented
\* domain
NegChoices(r) == IF r < 0 THEN NegRadiusOutcomes ELSE {"square"}

---------------------------------------------------------------------------
(* Geometry *)

Sq(a) == a * a

\* the least element of a set of numbers
MinOf(S) == CHOOSE m \in S : \A v \in S : m <= v

\* squared Euclidean distance of two positions
Dist2(p, q) == Sq(p[1] - q[1]) + Sq(p[2] - q[2]) + Sq(p[3] - q[3])

ISqrt(n) == CHOOSE r \in 0..n : Sq(r) <= n /\ n < Sq(r + 1)

\* Euclidean distance; exact whenever Dist2 is a perfect square
Dist(p, q) == ISqrt(Dist2(p, q))

\* StarNode(id, x, y, z)
StarNode(id, p) == [id |-> id, x |-> p[1], y |-> p[2], z |-> p[3]]

\* [node.x, node.y, node.z]
Pos(node) == <<node.x, node.y, node.z>>

\* np.array([[node.x, node.y, node.z] for node in nodes])
Positions(nodes) == [i \in 1..Len(nodes) |-> Pos(nodes[i])]

\* load_stars: one StarNode per row, in file order
load_stars(file) == [i \in 1..Len(file) |-> StarNode(FirstId + i - 1, file[i])]

\* Python indices 0..n-1 of a sequence of length n, as a sequence
Indices(n) == [i \in 1..n |-> i - 1]

---------------------------------------------------------------------------
(* scipy.spatial.KDTree, by what its queries return *)

\* mutant: the boundary of the ball is left out
WithinClosedStrict(d2, r, neg) ==
    IF r >= 0 THEN d2 < Sq(r) ELSE neg = "square" /\ d2 < Sq(r)

\* is a point at squared distance d2 inside radius r, boundary included
\* (query_ball_tree / query_ball_point)
WithinClosed(d2, r, neg) ==
    IF r >= 0 THEN d2 <= Sq(r) ELSE neg = "square" /\ d2 <= Sq(r)

\* is a point at squared distance d2 below distance_upper_bound r
\* (KDTree.query keeps a hit only if d < distance_upper_bound)
WithinOpen(d2, r, neg) ==
    IF r >= 0 THEN d2 < Sq(r) ELSE neg = "square" /\ d2 < Sq(r)

\* KDTree(positions): the indexed data; an empty array is 1-dimensional and
\* is refused
KDTreeOf(positions) ==
    IF Len(positions) = 0 THEN [raised |-> "ValueError"]
    ELSE [raised |-> "none", data |-> positions]

\* query_ball_point: the indices of all points within r of p, ascending
BallRow(data, all, p, r, neg) ==
    SelectSeq(all, LAMBDA j : WithinClosed(Dist2(p, data[j + 1]), r, neg))

\* kdtree.query_ball_tree(kdtree, r): for each point, the indices of all
\* points within r of it, itself included
query_ball_tree(data, r, neg) ==
    [i \in 1..Len(data) |-> BallRow(data, Indices(Len(data)), data[i], r, neg)]

\* the candidates `order` (positions into the data, in tie order) listed by
\* ascending squared distance; `left` holds the squared distances not yet
\* listed
RECURSIVE NearestFirst(_, _, _)
NearestFirst(d2, order, left) ==
    IF left = {} THEN <<>>
    ELSE LET v == CHOOSE v \in left : \A w \in left : v <= w
         IN  SelectSeq(order, LAMBDA j : d2[j] = v) \o NearestFirst(d2, order, left \ {v})

\* the (distances, indices) arrays of a query: the first k hits, then padding
\* with distance inf and index n
PadToK(sorted, d2, k, n) ==
    [distances |-> [r \in 1..k |-> IF r <= Len(sorted) THEN ISqrt(d2[sorted[r]]) ELSE Infinity],
     indices   |-> [r \in 1..k |-> IF r <= Len(sorted) THEN sorted[r] - 1 ELSE n]]

\* the hits of a query, nearest first: only points strictly below the bound
QueryHits(d2, order, ub, neg) ==
    LET cand == SelectSeq(order, LAMBDA j : WithinOpen(d2[j], ub, neg))
    IN  NearestFirst(d2, cand, {d2[cand[i]] : i \in 1..Len(cand)})

\* kdtree.query(x, k, distance_upper_bound): the k nearest points strictly
\* below the bound, nearest first; missing neighbours are padded
kdtree_query(data, x, k, ub, neg, tie) ==
    LET n == Len(data)
        d2 == [j \in 1..n |-> Dist2(data[j], x)]
        order == [i \in 1..n |-> IF tie = "asc" THEN i ELSE n + 1 - i]
        hits == QueryHits(d2, order, ub, neg)
    IN  PadToK(SubSeq(hits, 1, IF Len(hits) < k THEN Len(hits) ELSE k), d2, k, n)

---------------------------------------------------------------------------
(* backend.py *)

\* list.remove(x): delete the first occurrence of x
ListRemove(s, x) ==
    LET k == MinOf({m \in 1..Len(s) : s[m] = x})
    IN  SubSeq(s, 1, k - 1) \o SubSeq(s, k + 1, Len(s))

\* x in list
InList(x, s) == \E k \in 1..Len(s) : s[k] = x

\* mutant: the self entry is taken to be the first entry of the row
RemoveFirstEntry(graph) ==
    [i \in 1..Len(graph) |->
        IF InList(i - 1, graph[i]) THEN Tail(graph[i]) ELSE graph[i]]

\* mutant: the removal loop is missing
KeepSelfLoops(graph) == graph

\* for i in range(len(graph)): if i in graph[i]: graph[i].remove(i)
RemoveSelfLoops(graph) ==
    [i \in 1..Len(graph) |->
        IF InList(i - 1, graph[i]) THEN ListRemove(graph[i], i - 1) ELSE graph[i]]

\* the use_kdtree=False branch: nodes[i].distance(nodes[j]) is evaluated for
\* the first pair i # j, and StarNode defines no method distance
BruteForceGraph(nodes, fuel) ==
    IF \E i, j \in 1..Len(nodes) : i # j
    THEN [raised |-> "AttributeError"]
    ELSE [raised |-> "none", graph |-> [i \in 1..Len(nodes) |-> <<>>]]

\* the k-d tree branch of build_graph
KDTreeGraph(nodes, fuel, neg) ==
    LET kdtree == KDTreeOf(Positions(nodes))
    IN  IF kdtree.raised # "none" THEN [raised |-> kdtree.raised]
        ELSE [raised |-> "none",
              graph  |-> RemoveSelfLoops(query_ball_tree(kdtree.data, fuel, neg))]

\* build_graph(nodes, fuel, use_kdtree)
build_graph(nodes, fuel, use_kdtree, neg) ==
    IF ~use_kdtree THEN BruteForceGraph(nodes, fuel)
    ELSE KDTreeGraph(nodes, fuel, neg)

\* mutant: the padding (dist = inf) is not filtered out
get_neighbors_padded(nodes, kdtree, star_index, fuel, neg, tie) ==
    LET position == Pos(nodes[star_index + 1])
        q == kdtree_query(kdtree, position, K, fuel, neg, tie)
        pairs == [r \in 1..K |-> [index |-> q.indices[r], distance |-> q.distances[r]]]
    IN  SelectSeq(pairs, LAMBDA e : e.index # star_index)

\* get_neighbors(nodes, kdtree, star_index, fuel)
get_neighbors(nodes, kdtree, star_index, fuel, neg, tie) ==
    LET position == Pos(nodes[star_index + 1])
        q == kdtree_query(kdtree, position, K, fuel, neg, tie)
        pairs == [r \in 1..K |-> [index |-> q.indices[r], distance |-> q.distances[r]]]
    IN  SelectSeq(pairs, LAMBDA e : e.distance # Infinity /\ e.index # star_index)

\* build_kdtree_data(nodes): what /stars/all sends
build_kdtree_data(nodes) ==
    LET positions == Positions(nodes)
        Axis(a) == {positions[i][a] : i \in 1..Len(positions)}
        Min(S) == CHOOSE m \in S : \A v \in S : m <= v
        Max(S) == CHOOSE m \in S : \A v \in S : m >= v
    IN  [positions |-> positions,
         metadata  |-> [i \in 1..Len(nodes) |-> [id |-> nodes[i].id]],
         bounds    |-> [min |-> [a \in 1..3 |-> Min(Axis(a))],
                        max |-> [a \in 1..3 |-> Max(Axis(a))]],
         count     |-> Len(nodes)]

---------------------------------------------------------------------------
(* The path search: Dijkstra and A* over the reachability graph *)

\* the neighbour list graph[u] as a set
Neighbours(graph, u) == {graph[u + 1][k] : k \in 1..Len(graph[u + 1])}

\* the weight of edge (u, v): the Euclidean distance of the two points
Weight(nodes, u, v) == Dist(Pos(nodes[u + 1]), Pos(nodes[v + 1]))

\* the entry a min-priority queue pops: least priority, ties by index
PopMin(queue) ==
    LET least == MinOf({e[1] : e \in queue})
        first == MinOf({e[2] : e \in {f \in queue : f[1] = least}})
    IN  CHOOSE e \in queue : e[1] = least /\ e[2] = first

\* mutant: the queue priority f is stored as the distance g
RelaxedOnF(nodes, u, cost, parent, rest, better, prio) ==
    [cost   |-> [v \in DOMAIN cost |-> IF v \in better THEN prio[v] ELSE cost[v]],
     parent |-> [v \in DOMAIN parent |-> IF v \in better THEN u ELSE parent[v]],
     queue  |-> rest \cup {<<prio[v], v, prio[v]>> : v \in better}]

\* relax the edges out of u: every neighbour in `better` gets the shorter
\* distance and u as parent, and is pushed with the priority prio[v]
Relaxed(nodes, u, cost, parent, rest, better, prio) ==
    [cost   |-> [v \in DOMAIN cost |->
                    IF v \in better THEN cost[u] + Weight(nodes, u, v) ELSE cost[v]],
     parent |-> [v \in DOMAIN parent |-> IF v \in better THEN u ELSE parent[v]],
     queue  |-> rest \cup {<<prio[v], v, cost[u] + Weight(nodes, u, v)>> : v \in better}]

\* the neighbours of u that the edge from u improves
Improved(nodes, graph, u, cost) ==
    {v \in Neighbours(graph, u) : cost[u] + Weight(nodes, u, v) < cost[v]}

\* the search loop; queue entries are <<priority, node, cost when pushed>>
\* and h[v] is added to the cost to order the queue (0 for Dijkstra)
RECURSIVE SearchLoop(_, _, _, _, _, _, _)
SearchLoop(nodes, graph, goal, h, cost, parent, queue) ==
    IF queue = {} THEN [cost |-> cost, parent |-> parent]
    ELSE LET e == PopMin(queue)
         IN  IF e[3] > cost[e[2]]
             THEN SearchLoop(nodes, graph, goal, h, cost, parent, queue \ {e})
             ELSE IF e[2] = goal THEN [cost |-> cost, parent |-> parent]
             ELSE LET better == Improved(nodes, graph, e[2], cost)
                      next == Relaxed(nodes, e[2], cost, parent, queue \ {e}, better,
                                      [v \in better |->
                                          cost[e[2]] + Weight(nodes, e[2], v) + h[v]])
                  IN  SearchLoop(nodes, graph, goal, h, next.cost, next.parent, next.queue)

\* walk the parent pointers from v back to start
RECURSIVE WalkBack(_, _, _)
WalkBack(parent, start, v) ==
    IF v = start THEN <<v>> ELSE <<v>> \o WalkBack(parent, start, parent[v])

Reverse(s) == [i \in 1..Len(s) |-> s[Len(s) + 1 - i]]

\* a path query: indices outside [0, pointCount) are rejected first; an
\* unreached goal is the explicit no-path result (no sequence, no cost)
ShortestPath(nodes, graph, start, goal, h) ==
    LET V == 0..(Len(nodes) - 1)
    IN  IF start \notin V \/ goal \notin V THEN [raised |-> "IndexOutOfRange"]
        ELSE LET done == SearchLoop(nodes, graph, goal, h,
                                    [v \in V |-> IF v = start THEN 0 ELSE Infinity],
                                    [v \in V |-> v],
                                    {<<h[start], start, 0>>})
             IN  IF done.cost[goal] = Infinity
                 THEN [raised |-> "none", sequence |-> <<>>, distance |-> None]
                 ELSE [raised |-> "none",
                       sequence |-> Reverse(WalkBack(done.parent, start, goal)),
                       distance |-> Some(done.cost[goal])]

\* Dijkstra: the queue is ordered by the tentative distance alone
djikstras(nodes, graph, start, goal) ==
    ShortestPath(nodes, graph, start, goal, [v \in 0..(Len(nodes) - 1) |-> 0])

\* A*: the queue is ordered by f = g + straight-line distance to the goal
astar(nodes, graph, start, goal) ==
    ShortestPath(nodes, graph, start, goal,
                 [v \in 0..(Len(nodes) - 1) |->
                     IF goal \in 0..(Len(nodes) - 1) THEN Weight(nodes, v, goal) ELSE 0])

---------------------------------------------------------------------------
(* api.py: the module state and the handlers *)

\* what a handler answers: the operation and its arguments, the HTTP status
\* (500 with the exception's name when the handler raises), the backend
\* calls the handler made before it answered, the local variable graph when
\* the handler built one, and the response body
Answer(op, args, status, error, calls, graph, body) ==
    [op |-> op, args |-> args, status |-> status, error |-> error,
     calls |-> calls, graph |-> graph, body |-> body]

NoArgs == [none |-> TRUE]
NoBody == [none |-> TRUE]

\* raise HTTPException(status_code=503, detail="Star data not loaded yet")
NotLoaded(op, args) == Answer(op, args, 503, "Star data not loaded yet", <<>>, <<>>, NoBody)

\* no answer is being sent
Idle == Answer("none", NoArgs, 0, "", <<>>, <<>>, NoBody)

Init ==
    /\ STAR_NODES = None
    /\ KDTREE = None
    /\ STAR_DATA = None
    /\ resp = Idle

\* what startup_event leaves behind for a file: the three globals are
\* assigned in turn; KDTree refuses an empty array, which ends the startup
\* after the first assignment
Started(file) ==
    LET nodes == load_stars(file)
        tree == KDTreeOf(Positions(nodes))
    IN  IF tree.raised # "none"
        THEN [STAR_NODES |-> Some(nodes), KDTREE |-> None, STAR_DATA |-> None,
              answer |-> Answer("startup", NoArgs, 500, tree.raised, <<>>, <<>>, NoBody)]
        ELSE [STAR_NODES |-> Some(nodes), KDTREE |-> Some(tree.data),
              STAR_DATA |-> Some(build_kdtree_data(nodes)),
              answer |-> Answer("startup", NoArgs, 200, "", <<>>, <<>>, NoBody)]

\* startup_event
startup_event ==
    /\ resp = Idle
    /\ STAR_NODES = None
    /\ \E file \in Files :
         /\ STAR_NODES' = Started(file).STAR_NODES
         /\ KDTREE' = Started(file).KDTREE
         /\ STAR_DATA' = Started(file).STAR_DATA
         /\ resp' = Started(file).answer

\* GET /
root ==
    /\ resp = Idle
    /\ resp' = Answer("root", NoArgs, 200, "", <<>>, <<>>,
                      [star_count |-> IF STAR_NODES # None /\ Len(STAR_NODES.value) > 0
                                      THEN Len(STAR_NODES.value) ELSE 0])
    /\ UNCHANGED <<STAR_NODES, KDTREE, STAR_DATA>>

\* GET /stars/all
get_all_stars ==
    /\ resp = Idle
    /\ resp' = IF STAR_DATA = None THEN NotLoaded("get_all_stars", NoArgs)
               ELSE Answer("get_all_stars", NoArgs, 200, "", <<>>, <<>>, STAR_DATA.value)
    /\ UNCHANGED <<STAR_NODES, KDTREE, STAR_DATA>>

\* the edge list of /graph over the rows lo..hi: [i, j] for every j in
\* graph[i] with i < j, in row order
RECURSIVE EdgeList(_, _, _)
EdgeList(graph, lo, hi) ==
    IF lo > hi THEN <<>>
    ELSE IF lo = hi
    THEN LET later == SelectSeq(graph[lo], LAMBDA j : lo - 1 < j)
         IN  [k \in 1..Len(later) |-> <<lo - 1, later[k]>>]
    ELSE EdgeList(graph, lo, (lo + hi) \div 2) \o EdgeList(graph, (lo + hi) \div 2 + 1, hi)

\* the answer of /graph
GraphAnswer(fuel, neg) ==
    LET args == [fuel |-> fuel]
        built == build_graph(STAR_NODES.value, fuel, TRUE, neg)
    IN  IF STAR_NODES = None THEN NotLoaded("get_graph", args)
        ELSE IF built.raised # "none"
        THEN Answer("get_graph", args, 500, built.raised, <<"build_graph">>, <<>>, NoBody)
        ELSE Answer("get_graph", args, 200, "", <<"build_graph">>, built.graph,
                    [nodes |-> Len(STAR_NODES.value),
                     edges |-> EdgeList(built.graph, 1, Len(built.graph)),
                     fuel  |-> fuel])

\* GET /graph?fuel=
get_graph ==
    /\ resp = Idle
    /\ \E fuel \in Fuels : \E neg \in NegChoices(fuel) : resp' = GraphAnswer(fuel, neg)
    /\ UNCHANGED <<STAR_NODES, KDTREE, STAR_DATA>>

\* the answer of /stars/{star_id}/neighbors
NeighborsAnswer(star_id, fuel, neg, tie) ==
    LET args == [star_id |-> star_id, fuel |-> fuel]
    IN  IF STAR_NODES = None \/ KDTREE = None
        THEN NotLoaded("get_star_neighbors", args)
        ELSE IF star_id < 0 \/ star_id >= Len(STAR_NODES.value)
        THEN Answer("get_star_neighbors", args, 404, "Star not found", <<>>, <<>>, NoBody)
        ELSE Answer("get_star_neighbors", args, 200, "", <<"get_neighbors">>, <<>>,
                    [star_id   |-> star_id,
                     position  |-> Pos(STAR_NODES.value[star_id + 1]),
                     neighbors |-> get_neighbors(STAR_NODES.value, KDTREE.value,
                                                 star_id, fuel, neg, tie),
                     fuel      |-> fuel])

\* GET /stars/{star_id}/neighbors?fuel=
get_star_neighbors ==
    /\ resp = Idle
    /\ \E star_id \in IndexInputs(IF STAR_NODES = None THEN 0 ELSE Len(STAR_NODES.value)),
          fuel \in Fuels, tie \in TieOrders :
         \E neg \in NegChoices(fuel) : resp' = NeighborsAnswer(star_id, fuel, neg, tie)
    /\ UNCHANGED <<STAR_NODES, KDTREE, STAR_DATA>>

\* the bounding boxes a /stars/region request carries
Boxes == {[min |-> <<0, 0, 0>>, max |-> <<3, 4, 0>>],
          [min |-> <<3, 0, 0>>, max |-> <<10, 10, 10>>],
          [min |-> <<4, 4, 4>>, max |-> <<0, 0, 0>>]}

\* the answer of /stars/region
RegionAnswer(box) ==
    LET nodes == STAR_NODES.value
        inside == SelectSeq(Indices(Len(nodes)),
                    LAMBDA i : \A a \in 1..3 :
                                 /\ box.min[a] <= Pos(nodes[i + 1])[a]
                                 /\ Pos(nodes[i + 1])[a] <= box.max[a])
    IN  IF STAR_NODES = None THEN NotLoaded("get_stars_in_region", box)
        ELSE Answer("get_stars_in_region", box, 200, "", <<>>, <<>>,
                    [stars |-> [k \in 1..Len(inside) |->
                                  [index    |-> inside[k],
                                   position |-> Pos(nodes[inside[k] + 1]),
                                   id       |-> nodes[inside[k] + 1].id]],
                     count |-> Len(inside)])

\* GET /stars/region
get_stars_in_region ==
    /\ resp = Idle
    /\ \E box \in Boxes : resp' = RegionAnswer(box)
    /\ UNCHANGED <<STAR_NODES, KDTREE, STAR_DATA>>

\* mutant: the handler raises on a search result without a cost
PathAnswerCostRequired(op, algorithm, fuel, start, end, neg) ==
    LET args == [fuel |-> fuel, start |-> start, end |-> end]
        built == build_graph(STAR_NODES.value, fuel, TRUE, neg)
        found == IF algorithm = "astar"
                 THEN astar(STAR_NODES.value, built.graph, start, end)
                 ELSE djikstras(STAR_NODES.value, built.graph, start, end)
    IN  IF STAR_NODES = None
        THEN Answer(op, args, 500, "TypeError", <<"build_graph">>, <<>>, NoBody)
        ELSE IF built.raised # "none"
        THEN Answer(op, args, 500, built.raised, <<"build_graph">>, <<>>, NoBody)
        ELSE IF found.raised # "none"
        THEN Answer(op, args, 500, found.raised, <<"build_graph", algorithm>>,
                    built.graph, NoBody)
        ELSE IF found.distance = None
        THEN Answer(op, args, 500, "TypeError", <<"build_graph", algorithm>>,
                    built.graph, NoBody)
        ELSE Answer(op, args, 200, "", <<"build_graph", algorithm>>, built.graph,
                    [sequence |-> [k \in 1..Len(found.sequence) |->
                                     STAR_NODES.value[found.sequence[k] + 1].id],
                     distance |-> found.distance])

\* the body of a path handler: build the graph, run the search, translate
\* the indices of the sequence to star ids
PathAnswer(op, algorithm, fuel, start, end, neg) ==
    LET args == [fuel |-> fuel, start |-> start, end |-> end]
        built == build_graph(STAR_NODES.value, fuel, TRUE, neg)
        found == IF algorithm = "astar"
                 THEN astar(STAR_NODES.value, built.graph, start, end)
                 ELSE djikstras(STAR_NODES.value, built.graph, start, end)
    IN  IF STAR_NODES = None
        THEN Answer(op, args, 500, "TypeError", <<"build_graph">>, <<>>, NoBody)
        ELSE IF built.raised # "none"
        THEN Answer(op, args, 500, built.raised, <<"build_graph">>, <<>>, NoBody)
        ELSE IF found.raised # "none"
        THEN Answer(op, args, 500, found.raised, <<"build_graph", algorithm>>,
                    built.graph, NoBody)
        ELSE Answer(op, args, 200, "", <<"build_graph", algorithm>>, built.graph,
                    [sequence |-> [k \in 1..Len(found.sequence) |->
                                     STAR_NODES.value[found.sequence[k] + 1].id],
                     distance |-> found.distance])

\* GET /djikstra?fuel=&start=&end=
djikstra_call ==
    /\ resp = Idle
    /\ \E fuel \in Fuels,
          start, end \in IndexInputs(IF STAR_NODES = None THEN 0 ELSE Len(STAR_NODES.value)) :
         \E neg \in NegChoices(fuel) :
           resp' = PathAnswer("djikstra_call", "djikstras", fuel, start, end, neg)
    /\ UNCHANGED <<STAR_NODES, KDTREE, STAR_DATA>>

\* the same path query with the A* algorithm selected
astar_call ==
    /\ resp = Idle
    /\ \E fuel \in Fuels,
          start, end \in IndexInputs(IF STAR_NODES = None THEN 0 ELSE Len(STAR_NODES.value)) :
         \E neg \in NegChoices(fuel) :
           resp' = PathAnswer("astar_call", "astar", fuel, start, end, neg)
    /\ UNCHANGED <<STAR_NODES, KDTREE, STAR_DATA>>

\* the two backend modules of the repository: backend.py, whose build_graph
\* branches on use_kdtree, and backend/backend.py, whose build_graph takes
\* the flag and never reads it
Backends == {"backend.py", "backend/backend.py"}

\* what a direct call of build_graph on the loaded point set returns
BuildAnswer(backend, fuel, use_kdtree, neg) ==
    LET built == IF backend = "backend.py"
                 THEN build_graph(STAR_NODES.value, fuel, use_kdtree, neg)
                 ELSE KDTreeGraph(STAR_NODES.value, fuel, neg)
        args == [backend |-> backend, fuel |-> fuel, use_kdtree |-> use_kdtree]
    IN  IF built.raised # "none"
        THEN Answer("build_graph", args, 500, built.raised, <<"build_graph">>, <<>>, NoBody)
        ELSE Answer("build_graph", args, 200, "", <<"build_graph">>, built.graph, NoBody)

\* build_graph called directly on the loaded point set, with either value of
\* use_kdtree
build_graph_call ==
    /\ resp = Idle
    /\ STAR_NODES # None
    /\ \E backend \in Backends, fuel \in Fuels, use_kdtree \in BOOLEAN :
         \E neg \in NegChoices(fuel) : resp' = BuildAnswer(backend, fuel, use_kdtree, neg)
    /\ UNCHANGED <<STAR_NODES, KDTREE, STAR_DATA>>

\* the answer has been sent: the event loop takes the next request
reply ==
    /\ resp # Idle
    /\ resp' = Idle
    /\ UNCHANGED <<STAR_NODES, KDTREE, STAR_DATA>>

Next ==
    \/ startup_event
    \/ root
    \/ get_all_stars
    \/ get_graph
    \/ get_star_neighbors
    \/ get_stars_in_region
    \/ djikstra_call
    \/ astar_call
    \/ build_graph_call
    \/ reply

Spec == Init /\ [][Next]_vars

---------------------------------------------------------------------------
(* What the properties below read off a state *)

\* the loaded point set, its size and its point indices
Nodes == STAR_NODES.value
NodeCount == Len(Nodes)
V == 0..(NodeCount - 1)

\* the position of point i
At(i) == Pos(Nodes[i + 1])

\* points i and j are within fuel of each other, boundary included
Near(i, j, fuel) == Dist2(At(i), At(j)) <= Sq(fuel)

\* the answer carries an adjacency built for a fuel >= 0
HasGraph == Len(resp.graph) > 0 /\ resp.args.fuel >= 0

\* the rows of the adjacency as sets, as a sequence: the row of point i is
\* Rows[i + 1]
Rows ==
    [i \in 1..NodeCount |-> {resp.graph[i][k] : k \in 1..Len(resp.graph[i])}] \o <<>>

\* R[i + 1] of such a sequence
Row(R, i) == R[i + 1]

---------------------------------------------------------------------------
(* C1 *)

\* C1: the adjacency build_graph returns for a fuel >= 0 is symmetric: j is
\* in graph[i] if and only if i is in graph[j], for every pair of indices.
C1_Symmetric ==
    HasGraph => LET R == Rows
                IN  \A i \in V : \A j \in Row(R, i) : j \in V /\ i \in Row(R, j)

\* a graph of three or more points with an edge and with a pair that is not
\* an edge, as /graph built it
C1_Witness ==
    /\ resp.op = "get_graph"
    /\ HasGraph
    /\ NodeCount >= 3
    /\ LET R == Rows
       IN  /\ \E i, j \in V : i # j /\ j \in Row(R, i)
           /\ \E i, j \in V : i # j /\ j \notin Row(R, i)

---------------------------------------------------------------------------
(* C2 *)

\* C2: build_graph(nodes, fuel)[i] is exactly the set of j # i with
\* distance(i, j) <= fuel, boundary included, and this holds for both
\* branches: use_kdtree=False (the all-pairs scan) returns that same graph.
C2_ExactOnBothBranches ==
    (resp.op = "build_graph" /\ resp.args.fuel >= 0 /\ NodeCount > 0)
        => /\ resp.status = 200
           /\ LET R == Rows
              IN  \A i \in V :
                    Row(R, i) = {j \in V : j # i /\ Near(i, j, resp.args.fuel)}

---------------------------------------------------------------------------
(* C3 *)

\* C3 as stated: build_graph(nodes, 0) is edgeless for every point set, also
\* one where two indices have identical coordinates.
C3_EdgelessAtZeroFuel ==
    (HasGraph /\ resp.args.fuel = 0) => \A i \in V : resp.graph[i + 1] = <<>>

\* C3 as amended: build_graph(nodes, 0)[i] holds exactly the other indices
\* whose coordinates are identical to those of i; the graph is edgeless
\* when the coordinates are pairwise distinct.
C3_ZeroFuelLinksCoincident ==
    (HasGraph /\ resp.args.fuel = 0)
        => LET R == Rows
           IN  \A i \in V : Row(R, i) = {j \in V : j # i /\ At(j) = At(i)}

\* a graph built with fuel 0 over several points of pairwise distinct
\* coordinates: no row has an entry
C3_Witness ==
    /\ HasGraph
    /\ resp.args.fuel = 0
    /\ NodeCount >= 2
    /\ \A i, j \in V : i # j => At(i) # At(j)
    /\ \A i \in V : resp.graph[i + 1] = <<>>

---------------------------------------------------------------------------
(* C4 *)

\* the answer of a neighbour query that reached get_neighbors, fuel >= 0
NeighborsAnswered ==
    /\ resp.op = "get_star_neighbors"
    /\ resp.status = 200
    /\ resp.args.fuel >= 0

\* the indices get_neighbors returned
Returned == {resp.body.neighbors[k].index : k \in 1..Len(resp.body.neighbors)}

\* C4: when fewer than k = 100 points (self included) lie within fuel of star
\* s, get_neighbors returns exactly {j # s : distance(s, j) <= fuel}, the
\* row build_graph(nodes, fuel)[s]; a point exactly fuel away is included.
C4_NeighborsAreGraphRow ==
    (/\ NeighborsAnswered
     /\ Cardinality({j \in V : Near(resp.args.star_id, j, resp.args.fuel)}) < K)
        => /\ Returned = {j \in V : /\ j # resp.args.star_id
                                    /\ Near(resp.args.star_id, j, resp.args.fuel)}
           /\ Returned =
                LET row == build_graph(Nodes, resp.args.fuel, TRUE, "square")
                               .graph[resp.args.star_id + 1]
                IN  {row[k] : k \in 1..Len(row)}

---------------------------------------------------------------------------
(* C5 *)

\* C5: every entry get_neighbors returns for a fuel >= 0 is a point index in
\* [0, n) other than s, paired with its exact, finite distance <= fuel; the
\* entries are in non-decreasing distance; no padding entry (index n,
\* distance inf) is among them; there are at most 100 entries.
C5_EntriesAreRealNeighbors ==
    NeighborsAnswered
        => LET list == resp.body.neighbors
               s == resp.args.star_id
           IN  /\ Len(list) <= K
               /\ \A k \in 1..Len(list) :
                    /\ list[k].index \in V
                    /\ list[k].index # s
                    /\ list[k].distance # Infinity
                    /\ Sq(list[k].distance) = Dist2(At(s), At(list[k].index))
                    /\ list[k].distance <= resp.args.fuel
               /\ \A k \in 1..(Len(list) - 1) : list[k].distance <= list[k + 1].distance

\* a query over fewer than 100 points (the k = 100 result was padded) that
\* returned some but not all of the other points
C5_Witness ==
    /\ NeighborsAnswered
    /\ NodeCount < K
    /\ Len(resp.body.neighbors) >= 1
    /\ Len(resp.body.neighbors) < NodeCount - 1

---------------------------------------------------------------------------
(* Path queries: what the answers are measured against *)

PathOps == {"djikstra_call", "astar_call"}

\* a path query between two valid indices for which the graph was built
PathAsked(op) ==
    /\ resp.op = op
    /\ resp.args.fuel >= 0
    /\ STAR_NODES # None
    /\ resp.args.start \in V
    /\ resp.args.end \in V
    /\ Len(resp.graph) = NodeCount

\* the indices reachable from the set S along the rows R
RECURSIVE Closure(_, _)
Closure(R, S) ==
    LET T == S \cup UNION {Row(R, u) : u \in S}
    IN  IF T = S THEN S ELSE Closure(R, T)

\* start and end of the request lie in one connected component of the graph
Connected == resp.args.end \in Closure(Rows, {resp.args.start})

\* the least total edge weight from the start to every index, by repeated
\* relaxation of every edge until nothing changes
RECURSIVE Settle(_, _)
Settle(R, cost) ==
    LET next == [v \in V |->
                    MinOf({cost[v]} \cup
                          {cost[u] + Dist(At(u), At(v)) :
                               u \in {w \in V : cost[w] # Infinity /\ v \in Row(R, w)}})]
    IN  IF next = cost THEN cost ELSE Settle(R, next)

LeastCost ==
    Settle(Rows, [v \in V |-> IF v = resp.args.start THEN 0 ELSE Infinity])[resp.args.end]

\* the answered sequence of star ids as point indices
Walk == [k \in 1..Len(resp.body.sequence) |-> resp.body.sequence[k] - FirstId]

\* the sum of the Euclidean edge weights along a sequence of indices
RECURSIVE WalkCost(_)
WalkCost(w) ==
    IF Len(w) <= 1 THEN 0
    ELSE Dist(At(w[1]), At(w[2])) + WalkCost(Tail(w))

\* the answer is a path in the graph from start to end whose reported cost
\* is the sum of its edge weights and the least over all paths
IsShortestPath ==
    LET R == Rows
        w == Walk
    IN  /\ resp.status = 200
        /\ Len(w) >= 1
        /\ w[1] = resp.args.start
        /\ w[Len(w)] = resp.args.end
        /\ \A k \in 1..(Len(w) - 1) : w[k] \in V /\ w[k + 1] \in Row(R, w[k])
        /\ resp.body.distance = Some(WalkCost(w))
        /\ WalkCost(w) = LeastCost

\* the request is Dijkstra(start -> end) over the four points of the
\* documented scenario with the given fuel
ScenarioQuery(fuel, start, end) ==
    /\ PathAsked("djikstra_call")
    /\ Positions(Nodes) = Scenario
    /\ resp.args.fuel = fuel
    /\ resp.args.start = start
    /\ resp.args.end = end

---------------------------------------------------------------------------
(* C6 *)

\* C6 as stated: for every connected (start, goal) Dijkstra returns a path
\* from start to goal along graph edges whose cost is the sum of its
\* Euclidean edge weights and minimal; and for (0,0,0), (3,0,0), (3,4,0),
\* (10,10,10) with fuel 5, Dijkstra(0 -> 2) returns [0, 1, 2] with cost 7.
C6_ShortestAndScenarioCost7 ==
    /\ (PathAsked("djikstra_call") /\ Connected) => IsShortestPath
    /\ ScenarioQuery(5, 0, 2)
          => resp.status = 200 /\ Walk = <<0, 1, 2>> /\ resp.body.distance = Some(7)

\* C6 as amended: the general statement unchanged; in the scenario the
\* points 0 and 2 are exactly 5 apart, so with fuel 5 the edge (0, 2)
\* exists and Dijkstra(0 -> 2) returns [0, 2] with cost 5; [0, 1, 2] with
\* cost 7 is the answer for fuel 4.
C6_ShortestAndScenarioCost5 ==
    /\ (PathAsked("djikstra_call") /\ Connected) => IsShortestPath
    /\ ScenarioQuery(5, 0, 2)
          => resp.status = 200 /\ Walk = <<0, 2>> /\ resp.body.distance = Some(5)
    /\ ScenarioQuery(4, 0, 2)
          => resp.status = 200 /\ Walk = <<0, 1, 2>> /\ resp.body.distance = Some(7)

\* the scenario's query with fuel 5 was answered, over a graph that holds
\* the edge (0, 2)
C6_Witness ==
    /\ ScenarioQuery(5, 0, 2)
    /\ resp.status = 200
    /\ 2 \in Row(Rows, 0)
    /\ Len(resp.body.sequence) = 2

---------------------------------------------------------------------------
(* C7 *)

\* C7: for every connected (start, goal), A* reports the same total cost as
\* Dijkstra on the same graph.
C7_AStarCostIsDijkstraCost ==
    (PathAsked("astar_call") /\ Connected)
        => /\ resp.status = 200
           /\ resp.body.distance =
                djikstras(Nodes, resp.graph, resp.args.start, resp.args.end).distance

\* an A* answer over several hops where a direct-looking first hop is not on
\* the cheapest route
C7_Witness ==
    /\ PathAsked("astar_call")
    /\ Connected
    /\ resp.status = 200
    /\ Len(resp.body.sequence) >= 3
    /\ resp.body.distance = Some(6)

---------------------------------------------------------------------------
(* C8 *)

---------------------------------------------------------------------------
(* C9 *)

\* the index arguments of the answered request
IndexArgs ==
    IF resp.op = "get_star_neighbors" THEN {resp.args.star_id}
    ELSE IF resp.op \in PathOps THEN {resp.args.start, resp.args.end}
    ELSE {}

\* C9: the neighbour query and the path query reject an index outside
\* [0, pointCount) before any computation begins: no graph is built and no
\* k-d tree is queried for such a request.
C9_BadIndexRejectedFirst ==
    (/\ resp.op \in {"get_star_neighbors", "djikstra_call"}
     /\ STAR_NODES # None
     /\ KDTREE # None
     /\ resp.args.fuel >= 0
     /\ \E i \in IndexArgs : i \notin V)
        => /\ resp.status \in 400..499
           /\ resp.calls = <<>>

---------------------------------------------------------------------------
(* C10 *)

\* C10: /graph, /stars/{star_id}/neighbors and /djikstra reject a negative
\* fuel at their boundary with an error outcome, and do not pass it to
\* build_graph or get_neighbors.
C10_NegativeFuelRejected ==
    (/\ resp.op \in {"get_graph", "get_star_neighbors", "djikstra_call"}
     /\ STAR_NODES # None
     /\ KDTREE # None
     /\ \A i \in IndexArgs : i \in V
     /\ resp.args.fuel < 0)
        => /\ resp.status \in 400..499
           /\ resp.calls = <<>>

---------------------------------------------------------------------------
(* C11 *)

\* the globals each handler reads, as they are when it answers (no handler
\* assigns them)
Needed ==
    [get_all_stars       |-> {STAR_DATA},
     get_graph           |-> {STAR_NODES},
     get_star_neighbors  |-> {STAR_NODES, KDTREE},
     get_stars_in_region |-> {STAR_NODES},
     djikstra_call       |-> {STAR_NODES}]

\* startup has published all three globals
Published == STAR_NODES # None /\ KDTREE # None /\ STAR_DATA # None

\* a handler whose data is still None answers 503 'not loaded yet' without
\* having called into the backend; / answers star_count 0
UnloadedIsRefused ==
    /\ (resp.op \in DOMAIN Needed /\ None \in Needed[resp.op])
          => /\ resp.status = 503
             /\ resp.error = "Star data not loaded yet"
             /\ resp.calls = <<>>
    /\ (resp.op = "root" /\ STAR_NODES = None)
          => resp.status = 200 /\ resp.body.star_count = 0

\* C11: in every interleaving of startup_event with the request handlers, a
\* handler (/stars/all, /graph, /stars/{id}/neighbors, /stars/region,
\* /djikstra) whose STAR_NODES, KDTREE or STAR_DATA is still None answers
\* 503 'not loaded yet' (/ answers star_count 0) and never dereferences
\* None; and once startup has completed, no step reassigns the three
\* globals.
C11_NothingReadBeforePublished ==
    /\ []UnloadedIsRefused
    /\ [][Published => UNCHANGED <<STAR_NODES, KDTREE, STAR_DATA>>]_vars

====
